---- MODULE Spec2Model ----
(***************************************************************************)
(* aw-watcher-afk: the AFK watcher (aw_watcher_afk/afk.py) and its entry   *)
(* point (aw_watcher_afk/__main__.py) as a state machine.                  *)
(*                                                                         *)
(* Instants are integers in milliseconds, durations and idle times are     *)
(* integers in seconds.  An optional value (Python None or a value) is a   *)
(* sequence of length 0 or 1.                                              *)
(***************************************************************************)
EXTENDS Integers, Sequences, FiniteSets, TLC

VARIABLES
    pc,                  \* position of the single thread of control
    environ,             \* os.environ: SSH_CLIENT, SSH_TTY (optional strings)
    system,              \* platform.system()
    ppid,                \* os.getppid()
    clock,               \* wall clock, in milliseconds
    args,                \* parse_args(): optional timeout / poll_time overrides
    config_section,      \* load_config(): timeout, poll_time
    settings,            \* AFKWatcher.settings: <<>> or <<Settings object>>
    bucketname,          \* AFKWatcher.bucketname: <<>> or <<name>>
    connected,           \* the client's scoped connection is open
    store,               \* every call made to the store client, in order
    afk,                 \* heartbeat_loop local
    now,                 \* heartbeat_loop local, milliseconds
    seconds_since_input, \* heartbeat_loop local, seconds
    last_input,          \* heartbeat_loop local, milliseconds
    exc,                 \* exception that left the program ("none" if none)
    exit_code,           \* <<>> while running, <<code>> after sys.exit
    feed,                \* history: the idle times sampled so far
    afk0,                \* history: afk when the current tick started
    mark,                \* history: Len(store) when the current tick started
    left                 \* history: how the loop was left: <<>> or <<[by, at, calls]>>

vars == << pc, environ, system, ppid, clock, args, config_section, settings,
           bucketname, connected, store, afk, now, seconds_since_input,
           last_input, exc, exit_code, feed, afk0, mark, left >>

-----------------------------------------------------------------------------
(* Bounds and input sets *)

\* number of ticks the polling loop is followed for
MaxTicks == 3

\* idle times the platform's idle-time provider is sampled at: below, at
\* and above the timeouts, with values a poll_time apart (0, 5, 10, 15)
Samples == {0, 5, 9, 10, 15}

\* values of the configuration file and of the command-line overrides
ConfigTimeouts  == {9, 10}
ConfigPollTimes == {5, 10}
ArgTimeouts     == {<<>>, <<0>>, <<4>>, <<9>>, <<10>>}
ArgPollTimes    == {<<>>, <<0>>, <<5>>, <<10>>}

Systems   == {"Windows", "Darwin", "Linux"}
Usernames == {"alice", "unknown"}
Hostname  == "host1"

\* the wall clock when the process starts, milliseconds
ClockStart == 100000

-----------------------------------------------------------------------------
(* Python helpers *)

None == <<>>

\* truth value of an optional number: None and 0 are false
TruthyNum(o) == o # None /\ o[1] # 0

\* truth value of an optional string: None and "" are false
TruthyStr(o) == o # None /\ o[1] # ""

\* `a or b` where a is an optional number and b is a number
Or(a, b) == IF TruthyNum(a) THEN a[1] ELSE b

\* timedelta(seconds=s), in milliseconds
timedelta(s) == 1000 * s

\* mutant of td1ms: a second in place of a millisecond
td1s == timedelta(1)

\* timedelta(milliseconds=1)
td1ms == 1

-----------------------------------------------------------------------------
(* afk.py: pure parts *)

\* mutant of running_over_ssh: only SSH_CLIENT is looked at
running_over_ssh_client_only(env) == TruthyStr(env.SSH_CLIENT)

\* running_over_ssh(): bool(environ.get("SSH_CLIENT") or environ.get("SSH_TTY"))
running_over_ssh(env) ==
    TruthyStr(IF TruthyStr(env.SSH_CLIENT) THEN env.SSH_CLIENT ELSE env.SSH_TTY)

\* Settings.__init__: self.timeout = timeout or config_section["timeout"]
Settings_timeout(config, timeout) == Or(timeout, config.timeout)

\* Settings.__init__: self.poll_time = poll_time or config_section["poll_time"]
Settings_poll_time(config, poll_time) == Or(poll_time, config.poll_time)

\* mutant of Settings_assert: the assertion is not evaluated
Settings_assert_stripped(timeout, poll_time) == TRUE

\* Settings.__init__: assert self.timeout >= self.poll_time
Settings_assert(timeout, poll_time) == timeout >= poll_time

\* AFKWatcher.__init__: "{}-afk_{}".format(username, client_hostname)
format_bucketname(username, client_hostname) ==
    << username, "-afk_", client_hostname >>

\* mutant of ping: the pulsetime leaves out poll_time
ping_pulsetime_timeout(afk_, timestamp, duration) ==
    [ op        |-> "heartbeat",
      bucket    |-> bucketname[1],
      status    |-> IF afk_ THEN "afk" ELSE "not-afk",
      timestamp |-> timestamp,
      duration  |-> duration,
      pulsetime |-> settings[1].timeout,
      queued    |-> TRUE ]

\* mutant of ping: the merge window is poll_time alone
ping_pulsetime_poll_time(afk_, timestamp, duration) ==
    [ op        |-> "heartbeat",
      bucket    |-> bucketname[1],
      status    |-> IF afk_ THEN "afk" ELSE "not-afk",
      timestamp |-> timestamp,
      duration  |-> duration,
      pulsetime |-> settings[1].poll_time,
      queued    |-> TRUE ]

\* AFKWatcher.ping: the heartbeat call it makes on the client
ping(afk_, timestamp, duration) ==
    [ op        |-> "heartbeat",
      bucket    |-> bucketname[1],
      status    |-> IF afk_ THEN "afk" ELSE "not-afk",
      timestamp |-> timestamp,
      duration  |-> duration,
      pulsetime |-> settings[1].timeout + settings[1].poll_time,
      queued    |-> TRUE ]

\* mutant of parent_died: only Linux is tested
parent_died_linux_only(system_, ppid_) == system_ = "Linux" /\ ppid_ = 1

\* heartbeat_loop: the parent-death test of a tick
parent_died(system_, ppid_) == system_ \in {"Darwin", "Linux"} /\ ppid_ = 1

\* heartbeat_loop: "If no longer AFK"
no_longer_afk(afk_, ssi, timeout) == afk_ /\ ssi < timeout

\* mutant of becomes_afk: the threshold is exclusive
becomes_afk_exclusive(afk_, ssi, timeout) == ~afk_ /\ ssi > timeout

\* heartbeat_loop: "If becomes AFK"
becomes_afk(afk_, ssi, timeout) == ~afk_ /\ ssi >= timeout

-----------------------------------------------------------------------------
(* Initial state: the process has been started, main() has not run yet *)

ParentPid == 4242

Environs == [ SSH_CLIENT : {None, <<"">>, <<"10.0.0.7 22">>},
              SSH_TTY    : {None, <<"/dev/pts/0">>} ]

Init ==
    /\ pc = "parse_args"
    /\ environ \in Environs
    /\ system \in Systems
    /\ ppid = ParentPid
    /\ clock = ClockStart
    /\ args = None
    /\ config_section = None
    /\ settings = None
    /\ bucketname = None
    /\ connected = FALSE
    /\ store = <<>>
    /\ afk = FALSE
    /\ now = 0
    /\ seconds_since_input = 0
    /\ last_input = 0
    /\ exc = "none"
    /\ exit_code = None
    /\ feed = <<>>
    /\ afk0 = FALSE
    /\ mark = 0
    /\ left = None

loop_locals == << afk, now, seconds_since_input, last_input >>
history     == << feed, afk0, mark, left >>
platform    == << environ, system, ppid, clock >>

-----------------------------------------------------------------------------
(* __main__.py *)

\* main: args = parse_args()
main_parse_args ==
    /\ pc = "parse_args"
    /\ \E t \in ArgTimeouts, p \in ArgPollTimes :
          args' = << [timeout |-> t, poll_time |-> p] >>
    /\ pc' = "running_over_ssh"
    /\ UNCHANGED << platform, config_section, settings, bucketname, connected,
                    store, loop_locals, exc, exit_code, history >>

\* main: if running_over_ssh(): sys.exit(0); else set up logging, go on
main_running_over_ssh ==
    /\ pc = "running_over_ssh"
    /\ IF running_over_ssh(environ)
         THEN pc' = "exited" /\ exit_code' = << 0 >>
         ELSE pc' = "Settings" /\ exit_code' = exit_code
    /\ UNCHANGED << platform, args, config_section, settings, bucketname,
                    connected, store, loop_locals, exc, history >>

-----------------------------------------------------------------------------
(* afk.py: AFKWatcher.__init__ *)

\* AFKWatcher.__init__: self.settings = Settings(load_config(testing), ...)
\* The assert of Settings.__init__ raises AssertionError out of main.
AFKWatcher_init_settings ==
    /\ pc = "Settings"
    /\ \E t \in ConfigTimeouts, p \in ConfigPollTimes :
          LET config    == [timeout |-> t, poll_time |-> p]
              timeout   == Settings_timeout(config, args[1].timeout)
              poll_time == Settings_poll_time(config, args[1].poll_time)
          IN  /\ config_section' = << config >>
              /\ IF Settings_assert(timeout, poll_time)
                   THEN /\ settings' = << [timeout   |-> timeout,
                                           poll_time |-> poll_time] >>
                        /\ pc' = "get_logged_in_user"
                        /\ exc' = exc
                   ELSE /\ settings' = settings
                        /\ pc' = "raised"
                        /\ exc' = "AssertionError"
    /\ UNCHANGED << platform, args, bucketname, connected, store, loop_locals,
                    exit_code, history >>

\* AFKWatcher.__init__: username, client, bucketname; then __init__ returns
\* and its parameters and locals (args, the config section) are gone.
AFKWatcher_init_identity ==
    /\ pc = "get_logged_in_user"
    /\ \E username \in Usernames :
          bucketname' = << format_bucketname(username, Hostname) >>
    /\ args' = None
    /\ config_section' = None
    /\ pc' = "wait_for_start"
    /\ UNCHANGED << platform, settings, connected, store, loop_locals, exc,
                    exit_code, history >>

-----------------------------------------------------------------------------
(* afk.py: AFKWatcher.run *)

\* run: self.client.wait_for_start(), which returns or raises
run_wait_for_start ==
    /\ pc = "wait_for_start"
    /\ store' = Append(store, [op |-> "wait_for_start"])
    /\ \E ok \in BOOLEAN :
          IF ok THEN pc' = "create_bucket" /\ exc' = exc
                ELSE pc' = "raised" /\ exc' = "Exception"
    /\ UNCHANGED << platform, args, config_section, settings, bucketname,
                    connected, loop_locals, exit_code, history >>

\* mutant of run_create_bucket: queued is left at its default
run_create_bucket_not_queued ==
    /\ pc = "create_bucket"
    /\ store' = Append(store, [ op        |-> "create_bucket",
                                bucket    |-> bucketname[1],
                                eventtype |-> "afkstatus",
                                queued    |-> FALSE ])
    /\ \E ok \in BOOLEAN :
          IF ok THEN pc' = "client_enter" /\ exc' = exc
                ELSE pc' = "raised" /\ exc' = "Exception"
    /\ UNCHANGED << platform, args, config_section, settings, bucketname,
                    connected, loop_locals, exit_code, history >>

\* run: self.client.create_bucket(self.bucketname, "afkstatus", queued=True)
run_create_bucket ==
    /\ pc = "create_bucket"
    /\ store' = Append(store, [ op        |-> "create_bucket",
                                bucket    |-> bucketname[1],
                                eventtype |-> "afkstatus",
                                queued    |-> TRUE ])
    /\ \E ok \in BOOLEAN :
          IF ok THEN pc' = "client_enter" /\ exc' = exc
                ELSE pc' = "raised" /\ exc' = "Exception"
    /\ UNCHANGED << platform, args, config_section, settings, bucketname,
                    connected, loop_locals, exit_code, history >>

\* mutant of run_client_enter: heartbeat_loop starts with afk = True
run_client_enter_afk_true ==
    /\ pc = "client_enter"
    /\ connected' = TRUE
    /\ store' = Append(store, [op |-> "connect"])
    /\ afk' = TRUE
    /\ pc' = "check_parent"
    /\ UNCHANGED << platform, args, config_section, settings, bucketname,
                    now, seconds_since_input, last_input, exc, exit_code,
                    history >>

\* run: `with self.client:` is entered, heartbeat_loop starts with afk = False
run_client_enter ==
    /\ pc = "client_enter"
    /\ connected' = TRUE
    /\ store' = Append(store, [op |-> "connect"])
    /\ afk' = FALSE
    /\ pc' = "check_parent"
    /\ UNCHANGED << platform, args, config_section, settings, bucketname,
                    now, seconds_since_input, last_input, exc, exit_code,
                    history >>

\* mutant of run_client_exit: the connection is closed on return only
run_client_exit_on_return_only ==
    /\ pc = "client_exit"
    /\ IF exc = "none"
         THEN /\ connected' = FALSE
              /\ store' = Append(store, [op |-> "disconnect"])
              /\ pc' = "returned"
         ELSE /\ connected' = connected
              /\ store' = store
              /\ pc' = "raised"
    /\ UNCHANGED << platform, args, config_section, settings, bucketname,
                    loop_locals, exc, exit_code, history >>

\* run: `with self.client:` is left, by return or by an exception
run_client_exit ==
    /\ pc = "client_exit"
    /\ connected' = FALSE
    /\ store' = Append(store, [op |-> "disconnect"])
    /\ pc' = IF exc = "none" THEN "returned" ELSE "raised"
    /\ UNCHANGED << platform, args, config_section, settings, bucketname,
                    loop_locals, exc, exit_code, history >>

-----------------------------------------------------------------------------
(* afk.py: AFKWatcher.heartbeat_loop, one action per step of a tick *)

\* positions inside the try block of the loop body
TryPcs == {"check_parent", "read", "decide", "no_longer_afk_2",
           "became_afk_2", "sleep"}

\* positions at which the process has ended
EndPcs == {"exited", "returned", "raised"}

\* history record of the way the loop is left at the current position
LeftBy(why) == << [by |-> why, at |-> pc, calls |-> Len(store)] >>

\* if system in ["Darwin", "Linux"] and os.getppid() == 1: break
heartbeat_loop_check_parent ==
    /\ pc = "check_parent"
    /\ IF parent_died(system, ppid)
         THEN pc' = "client_exit" /\ left' = LeftBy("parent_died")
         ELSE pc' = "read" /\ left' = left
    /\ afk0' = afk
    /\ mark' = Len(store)
    /\ UNCHANGED << platform, args, config_section, settings, bucketname,
                    connected, store, loop_locals, exc, exit_code, feed >>

\* now = datetime.now(utc); seconds_since_input = seconds_since_last_input();
\* last_input = now - timedelta(seconds=seconds_since_input)
read_sample(s) ==
    /\ pc = "read"
    /\ now' = clock
    /\ seconds_since_input' = s
    /\ last_input' = clock - timedelta(s)
    /\ feed' = Append(feed, s)
    /\ pc' = "decide"
    /\ UNCHANGED << platform, args, config_section, settings, bucketname,
                    connected, store, afk, exc, exit_code, afk0, mark, left >>

\* the platform's idle-time provider may return any idle time
heartbeat_loop_read ==
    /\ Len(feed) < MaxTicks
    /\ \E s \in Samples : read_sample(s)

\* mutant of heartbeat_loop_no_longer_afk_1: afk is cleared before the first ping
heartbeat_loop_no_longer_afk_1_cleared_first ==
    /\ pc = "decide"
    /\ no_longer_afk(afk, seconds_since_input, settings[1].timeout)
    /\ store' = Append(store, ping(FALSE, last_input, 0))
    /\ pc' = "no_longer_afk_2"
    /\ UNCHANGED << platform, args, config_section, settings, bucketname,
                    connected, loop_locals, exc, exit_code, history >>

\* the synthetic idle-time feed of the boundary test
BoundaryFeed == << 5, 9, 10, 11, 9 >>

\* the idle-time provider replaced by the synthetic feed
heartbeat_loop_read_feed ==
    /\ Len(feed) < Len(BoundaryFeed)
    /\ read_sample(BoundaryFeed[Len(feed) + 1])

\* "No longer AFK": self.ping(afk, timestamp=last_input)
heartbeat_loop_no_longer_afk_1 ==
    /\ pc = "decide"
    /\ no_longer_afk(afk, seconds_since_input, settings[1].timeout)
    /\ store' = Append(store, ping(afk, last_input, 0))
    /\ pc' = "no_longer_afk_2"
    /\ UNCHANGED << platform, args, config_section, settings, bucketname,
                    connected, loop_locals, exc, exit_code, history >>

\* afk = False; self.ping(afk, timestamp=last_input + td1ms)
heartbeat_loop_no_longer_afk_2 ==
    /\ pc = "no_longer_afk_2"
    /\ afk' = FALSE
    /\ store' = Append(store, ping(FALSE, last_input + td1ms, 0))
    /\ pc' = "sleep"
    /\ UNCHANGED << platform, args, config_section, settings, bucketname,
                    connected, now, seconds_since_input, last_input, exc,
                    exit_code, history >>

\* mutant of heartbeat_loop_became_afk_1: the flag is set before the first
\* ping, which then carries the incoming status
heartbeat_loop_became_afk_1_flag_first ==
    /\ pc = "decide"
    /\ ~no_longer_afk(afk, seconds_since_input, settings[1].timeout)
    /\ becomes_afk(afk, seconds_since_input, settings[1].timeout)
    /\ store' = Append(store, ping(TRUE, last_input, 0))
    /\ pc' = "became_afk_2"
    /\ UNCHANGED << platform, args, config_section, settings, bucketname,
                    connected, loop_locals, exc, exit_code, history >>

\* "Became AFK": self.ping(afk, timestamp=last_input)
heartbeat_loop_became_afk_1 ==
    /\ pc = "decide"
    /\ ~no_longer_afk(afk, seconds_since_input, settings[1].timeout)
    /\ becomes_afk(afk, seconds_since_input, settings[1].timeout)
    /\ store' = Append(store, ping(afk, last_input, 0))
    /\ pc' = "became_afk_2"
    /\ UNCHANGED << platform, args, config_section, settings, bucketname,
                    connected, loop_locals, exc, exit_code, history >>

\* mutant of heartbeat_loop_became_afk_2: the duration argument is left out
heartbeat_loop_became_afk_2_no_duration ==
    /\ pc = "became_afk_2"
    /\ afk' = TRUE
    /\ store' = Append(store, ping(TRUE, last_input + td1ms, 0))
    /\ pc' = "sleep"
    /\ UNCHANGED << platform, args, config_section, settings, bucketname,
                    connected, now, seconds_since_input, last_input, exc,
                    exit_code, history >>

\* afk = True; self.ping(afk, last_input + td1ms, duration=seconds_since_input)
heartbeat_loop_became_afk_2 ==
    /\ pc = "became_afk_2"
    /\ afk' = TRUE
    /\ store' = Append(store,
                       ping(TRUE, last_input + td1ms, seconds_since_input))
    /\ pc' = "sleep"
    /\ UNCHANGED << platform, args, config_section, settings, bucketname,
                    connected, now, seconds_since_input, last_input, exc,
                    exit_code, history >>

\* mutant of heartbeat_loop_no_change: the afk heartbeat without the +1ms
heartbeat_loop_no_change_no_offset ==
    /\ pc = "decide"
    /\ ~no_longer_afk(afk, seconds_since_input, settings[1].timeout)
    /\ ~becomes_afk(afk, seconds_since_input, settings[1].timeout)
    /\ store' = Append(store,
                       IF afk
                         THEN ping(afk, last_input, seconds_since_input)
                         ELSE ping(afk, last_input, 0))
    /\ pc' = "sleep"
    /\ UNCHANGED << platform, args, config_section, settings, bucketname,
                    connected, loop_locals, exc, exit_code, history >>

\* "Send a heartbeat if no state change was made"
heartbeat_loop_no_change ==
    /\ pc = "decide"
    /\ ~no_longer_afk(afk, seconds_since_input, settings[1].timeout)
    /\ ~becomes_afk(afk, seconds_since_input, settings[1].timeout)
    /\ store' = Append(store,
                       IF afk
                         THEN ping(afk, last_input + td1ms, seconds_since_input)
                         ELSE ping(afk, last_input, 0))
    /\ pc' = "sleep"
    /\ UNCHANGED << platform, args, config_section, settings, bucketname,
                    connected, loop_locals, exc, exit_code, history >>

\* mutant of heartbeat_loop_sleep: the loop ends after the sleep
heartbeat_loop_sleep_then_break ==
    /\ pc = "sleep"
    /\ clock' = clock + timedelta(settings[1].poll_time)
    /\ pc' = "client_exit"
    /\ UNCHANGED << environ, system, ppid, args, config_section, settings,
                    bucketname, connected, store, loop_locals, exc, exit_code,
                    history >>

\* sleep(self.settings.poll_time), then the next iteration
heartbeat_loop_sleep ==
    /\ pc = "sleep"
    /\ clock' = clock + timedelta(settings[1].poll_time)
    /\ pc' = "check_parent"
    /\ UNCHANGED << environ, system, ppid, args, config_section, settings,
                    bucketname, connected, store, loop_locals, exc, exit_code,
                    history >>

\* mutant of heartbeat_loop_KeyboardInterrupt: the handler does not break
heartbeat_loop_KeyboardInterrupt_no_break ==
    /\ pc \in TryPcs
    /\ left' = LeftBy("KeyboardInterrupt")
    /\ pc' = "check_parent"
    /\ UNCHANGED << platform, args, config_section, settings, bucketname,
                    connected, store, loop_locals, exc, exit_code, feed, afk0,
                    mark >>

\* except KeyboardInterrupt: break
heartbeat_loop_KeyboardInterrupt ==
    /\ pc \in TryPcs
    /\ left' = LeftBy("KeyboardInterrupt")
    /\ pc' = "client_exit"
    /\ UNCHANGED << platform, args, config_section, settings, bucketname,
                    connected, store, loop_locals, exc, exit_code, feed, afk0,
                    mark >>

\* mutant of heartbeat_loop_raises: the exception is caught and the loop
\* goes on with the next tick
heartbeat_loop_raises_caught ==
    /\ pc \in TryPcs \ {"check_parent"}
    /\ exc' = exc
    /\ left' = LeftBy("Exception")
    /\ pc' = "check_parent"
    /\ UNCHANGED << platform, args, config_section, settings, bucketname,
                    connected, store, loop_locals, exit_code, feed, afk0,
                    mark >>

\* any other exception raised in the try block (by the idle-time provider,
\* by client.heartbeat or by sleep) is not caught by the loop
heartbeat_loop_raises ==
    /\ pc \in TryPcs \ {"check_parent"}
    /\ exc' = "Exception"
    /\ left' = LeftBy("Exception")
    /\ pc' = "client_exit"
    /\ UNCHANGED << platform, args, config_section, settings, bucketname,
                    connected, store, loop_locals, exit_code, feed, afk0,
                    mark >>

-----------------------------------------------------------------------------
(* The environment *)

\* the parent process dies: the process is re-parented to init (pid 1)
ParentDies ==
    /\ pc \notin EndPcs
    /\ ppid # 1
    /\ ppid' = 1
    /\ UNCHANGED << pc, environ, system, clock, args, config_section,
                    settings, bucketname, connected, store, loop_locals, exc,
                    exit_code, history >>

-----------------------------------------------------------------------------

\* every step but the reading of the idle time
Steps ==
    \/ main_parse_args
    \/ main_running_over_ssh
    \/ AFKWatcher_init_settings
    \/ AFKWatcher_init_identity
    \/ run_wait_for_start
    \/ run_create_bucket
    \/ run_client_enter
    \/ run_client_exit
    \/ heartbeat_loop_check_parent
    \/ heartbeat_loop_no_longer_afk_1
    \/ heartbeat_loop_no_longer_afk_2
    \/ heartbeat_loop_became_afk_1
    \/ heartbeat_loop_became_afk_2
    \/ heartbeat_loop_no_change
    \/ heartbeat_loop_sleep
    \/ heartbeat_loop_KeyboardInterrupt
    \/ heartbeat_loop_raises
    \/ ParentDies

Next == Steps \/ heartbeat_loop_read

Spec == Init /\ [][Next]_vars

\* the steps the program takes by itself: all but the events that reach it
\* from outside (an interrupt, an exception raised by a call, the parent's
\* death)
Program ==
    \/ main_parse_args
    \/ main_running_over_ssh
    \/ AFKWatcher_init_settings
    \/ AFKWatcher_init_identity
    \/ run_wait_for_start
    \/ run_create_bucket
    \/ run_client_enter
    \/ run_client_exit
    \/ heartbeat_loop_check_parent
    \/ heartbeat_loop_read
    \/ heartbeat_loop_no_longer_afk_1
    \/ heartbeat_loop_no_longer_afk_2
    \/ heartbeat_loop_became_afk_1
    \/ heartbeat_loop_became_afk_2
    \/ heartbeat_loop_no_change
    \/ heartbeat_loop_sleep

\* the single thread of control keeps running: a step that can be taken is
\* taken; calls and the sleep return
SpecFair == Init /\ [][Next]_vars /\ WF_vars(Program)

\* the program run against the synthetic feed of the boundary test
NextBoundary == Steps \/ heartbeat_loop_read_feed

SpecBoundary == Init /\ [][NextBoundary]_vars

-----------------------------------------------------------------------------
(* Vocabulary of the properties *)

\* the heartbeat calls of a call log, in order
Heartbeats(log) == SelectSeq(log, LAMBDA c : c.op = "heartbeat")

\* the calls made to the store since the current tick started
TickCalls == SubSeq(store, mark + 1, Len(store))

\* what a heartbeat says: status, timestamp (ms), duration (s)
Says(c) == << c.status, c.timestamp, c.duration >>

\* the heartbeats of the current tick, as <<status, timestamp, duration>>
TickBeats == [ i \in 1..Len(TickCalls) |-> Says(TickCalls[i]) ]

\* last_input = now - seconds_since_input, in milliseconds
LastInput == now - 1000 * seconds_since_input

\* the current tick has sent its heartbeats and is about to sleep
TickDone == pc = "sleep"

\* the sample of the current tick is below the AFK threshold
Below == seconds_since_input < settings[1].timeout

-----------------------------------------------------------------------------
(* C1 *)

\* C1 as stated: a tick that starts AFK and samples an idle time below the
\* timeout ends NOT_AFK having sent (a) not-afk at last_input, duration 0, and
\* (b) not-afk at last_input + 1ms, duration 0.
C1_AsStated ==
    (TickDone /\ afk0 /\ Below) =>
        /\ ~afk
        /\ TickBeats = << << "not-afk", LastInput, 0 >>,
                          << "not-afk", LastInput + 1, 0 >> >>

\* C1 amended: a tick that starts AFK and samples an idle time below the
\* timeout ends NOT_AFK having sent exactly two heartbeats: (a) status afk at
\* last_input, duration 0, then (b) status not-afk at last_input + 1ms,
\* duration 0.
C1_NoLongerAfk ==
    (TickDone /\ afk0 /\ Below) =>
        /\ ~afk
        /\ TickBeats = << << "afk", LastInput, 0 >>,
                          << "not-afk", LastInput + 1, 0 >> >>

C1_Witness == TickDone /\ afk0 /\ Below /\ Len(TickCalls) = 2

-----------------------------------------------------------------------------
(* C2 *)

\* C2 as stated: a tick that starts NOT_AFK and samples an idle time at or
\* above the timeout ends AFK having sent (a) afk at last_input, duration 0,
\* and (b) afk at last_input + 1ms, duration seconds_since_input.
C2_AsStated ==
    (TickDone /\ ~afk0 /\ ~Below) =>
        /\ afk
        /\ TickBeats = << << "afk", LastInput, 0 >>,
                          << "afk", LastInput + 1, seconds_since_input >> >>

\* C2 amended: a tick that starts NOT_AFK and samples an idle time at or
\* above the timeout ends AFK having sent exactly two heartbeats: (a) status
\* not-afk at last_input, duration 0, then (b) status afk at
\* last_input + 1ms, duration seconds_since_input.
C2_BecameAfk ==
    (TickDone /\ ~afk0 /\ ~Below) =>
        /\ afk
        /\ TickBeats = << << "not-afk", LastInput, 0 >>,
                          << "afk", LastInput + 1, seconds_since_input >> >>

C2_Witness ==
    TickDone /\ ~afk0 /\ ~Below /\ Len(TickCalls) = 2 /\ seconds_since_input > 0

-----------------------------------------------------------------------------
(* C3 *)

\* C3: a tick in which the state does not change sends exactly one heartbeat
\* and leaves the state as it was: AFK with a sample at or above the timeout
\* sends afk at last_input + 1ms with duration seconds_since_input; NOT_AFK
\* with a sample below the timeout sends not-afk at last_input, duration 0.
C3_NoChange ==
    /\ (TickDone /\ afk0 /\ ~Below) =>
          /\ afk
          /\ TickBeats = << << "afk", LastInput + 1, seconds_since_input >> >>
    /\ (TickDone /\ ~afk0 /\ Below) =>
          /\ ~afk
          /\ TickBeats = << << "not-afk", LastInput, 0 >> >>

\* an AFK tick without change that follows a NOT_AFK tick without change
C3_Witness ==
    /\ TickDone /\ afk0 /\ ~Below /\ Len(TickCalls) = 1
    /\ Len(feed) = 3 /\ feed[1] < settings[1].timeout

-----------------------------------------------------------------------------
(* C4 *)

\* the heartbeats of the current tick, as <<status, duration>>
TickShort == [ i \in 1..Len(TickCalls) |->
                 << TickCalls[i].status, TickCalls[i].duration >> ]

\* the durations of all heartbeats sent so far
Durations ==
    LET hb == Heartbeats(store) IN [ i \in 1..Len(hb) |-> hb[i].duration ]

\* C4: the threshold is inclusive and the state follows the sample: after
\* every tick the state is AFK iff the sample was >= timeout; and with
\* timeout = 10 the feed [5, 9, 10, 11, 9] gives one not-afk heartbeat of
\* duration 0 in ticks 1 and 2, a transition to AFK with two heartbeats, the
\* second of duration 10, in tick 3, one afk heartbeat of duration 11 in
\* tick 4, and a transition to NOT_AFK with two heartbeats of duration 0 in
\* tick 5.
C4_Boundary ==
    TickDone =>
      /\ afk = ~Below
      /\ settings[1].timeout = 10 =>
            /\ Len(feed) \in {1, 2} =>
                  ~afk0 /\ ~afk /\ TickShort = << << "not-afk", 0 >> >>
            /\ Len(feed) = 3 =>
                  /\ ~afk0 /\ afk
                  /\ Len(TickCalls) = 2 /\ TickCalls[2].duration = 10
            /\ Len(feed) = 4 =>
                  afk0 /\ afk /\ TickShort = << << "afk", 11 >> >>
            /\ Len(feed) = 5 =>
                  /\ afk0 /\ ~afk
                  /\ Len(TickCalls) = 2
                  /\ TickCalls[1].duration = 0 /\ TickCalls[2].duration = 0
                  /\ Durations = << 0, 0, 0, 10, 11, 0, 0 >>

C4_Witness ==
    /\ TickDone /\ settings[1].timeout = 10
    /\ feed = BoundaryFeed /\ Len(Heartbeats(store)) = 7

-----------------------------------------------------------------------------
(* C5 *)

\* C5: in a transition tick heartbeat (a) is sent before heartbeat (b), (b)'s
\* timestamp is (a)'s plus exactly 1ms, and both have been sent when the
\* tick's sleep begins.
C5_Ordering ==
    /\ pc \in {"no_longer_afk_2", "became_afk_2"} =>
          /\ Len(TickCalls) = 1
          /\ TickCalls[1].op = "heartbeat"
          /\ TickCalls[1].timestamp = LastInput
    /\ (TickDone /\ afk # afk0) =>
          /\ Len(TickCalls) = 2
          /\ TickCalls[1].op = "heartbeat" /\ TickCalls[2].op = "heartbeat"
          /\ TickCalls[1].timestamp = LastInput
          /\ TickCalls[2].timestamp = TickCalls[1].timestamp + 1

\* both directions have happened: a transition back to NOT_AFK is complete
C5_Witness ==
    TickDone /\ afk0 /\ ~afk /\ Len(TickCalls) = 2 /\ Len(feed) >= 2

-----------------------------------------------------------------------------
(* C6 *)

\* C6: every heartbeat ever sent goes to the bucket created at startup, with
\* pulsetime = timeout + poll_time of the settings resolved at construction
\* and queued; the settings and the bucket name are those of every earlier
\* heartbeat, so none of them changes between ticks.
C6_BucketAndPulsetime ==
    \A i \in 1..Len(store) :
        store[i].op = "heartbeat" =>
          /\ settings # None /\ bucketname # None
          /\ store[i].pulsetime = settings[1].timeout + settings[1].poll_time
          /\ store[i].queued
          /\ store[i].bucket = bucketname[1]
          /\ \E j \in 1..(i - 1) :
                /\ store[j].op = "create_bucket"
                /\ store[j].bucket = store[i].bucket

\* heartbeats of a transition tick and of ticks without change, in both states
C6_Witness ==
    LET hb == Heartbeats(store)
    IN  /\ Len(hb) >= 4
        /\ hb[1].status = "not-afk" /\ hb[Len(hb)].status = "afk"
        /\ Len(feed) = 3 /\ TickDone /\ afk0

-----------------------------------------------------------------------------
(* C7 *)

\* the parent is dead on a POSIX platform
PosixOrphan == system \in {"Darwin", "Linux"} /\ ppid = 1

\* C7: on a POSIX platform a tick that starts with the parent dead goes no
\* further than its first test: it reads no idle time and makes no store
\* call, the loop is left without an exception, and no heartbeat is sent in
\* that tick or afterwards.
C7_ParentDeath ==
    /\ [][ (pc = "check_parent" /\ PosixOrphan) =>
             /\ pc' \in {"check_parent", "client_exit"}
             /\ store' = store
             /\ feed' = feed ]_vars
    /\ []( (left # None /\ left[1].by = "parent_died") =>
             /\ exc = "none"
             /\ pc \in {"client_exit", "returned"}
             /\ left[1].at = "check_parent"
             /\ left[1].calls = mark
             /\ \A i \in (left[1].calls + 1)..Len(store) :
                   store[i].op # "heartbeat" )

\* the parent died while the loop was running, on macOS
C7_Witness ==
    /\ left # None /\ left[1].by = "parent_died"
    /\ pc = "returned" /\ system = "Darwin"
    /\ Len(Heartbeats(store)) >= 2

-----------------------------------------------------------------------------
(* C8 *)

\* C8: a KeyboardInterrupt delivered at any position of a tick leaves the
\* loop without an exception reaching the caller, and no heartbeat is sent
\* after it.
C8_Interrupt ==
    (left # None /\ left[1].by = "KeyboardInterrupt") =>
        /\ exc = "none"
        /\ pc \in {"client_exit", "returned"}
        /\ \A i \in (left[1].calls + 1)..Len(store) :
              store[i].op # "heartbeat"

\* interrupted between the two heartbeats of a transition
C8_Witness ==
    /\ left # None /\ left[1].by = "KeyboardInterrupt"
    /\ left[1].at \in {"no_longer_afk_2", "became_afk_2"}
    /\ pc = "returned"

-----------------------------------------------------------------------------
(* C9 *)

\* the values Settings resolution arrives at while AFKWatcher.__init__ runs
\* (an override of 0 is falsy and gives way to the configured value)
ResultingTimeout ==
    IF args[1].timeout \in {None, << 0 >>}
      THEN config_section[1].timeout ELSE args[1].timeout[1]

ResultingPollTime ==
    IF args[1].poll_time \in {None, << 0 >>}
      THEN config_section[1].poll_time ELSE args[1].poll_time[1]

\* C9: whenever the resulting timeout is less than the resulting poll_time,
\* Settings resolution fails at startup: no Settings object exists, main has
\* ended with the error and no call was made to the store; and every
\* Settings object that exists has timeout >= poll_time.
C9_InvalidConfiguration ==
    /\ settings # None => settings[1].timeout >= settings[1].poll_time
    /\ ( /\ args # None /\ config_section # None
         /\ ResultingTimeout < ResultingPollTime ) =>
          /\ settings = None
          /\ pc = "raised" /\ exc = "AssertionError"
          /\ store = << >> /\ ~connected

\* a configured timeout of 9 meets a poll_time override of 10
C9_Witness ==
    /\ pc = "raised" /\ exc = "AssertionError"
    /\ args[1].poll_time = << 10 >> /\ ResultingTimeout = 9

-----------------------------------------------------------------------------
(* C10 *)

\* C10 as stated: once Settings is resolved, timeout is the timeout override
\* whenever one is provided and config.timeout otherwise, and poll_time is
\* the poll_time override whenever one is provided and config.poll_time
\* otherwise.
C10_AsStated ==
    pc = "get_logged_in_user" =>
        /\ settings[1].timeout =
              IF args[1].timeout # None
                THEN args[1].timeout[1] ELSE config_section[1].timeout
        /\ settings[1].poll_time =
              IF args[1].poll_time # None
                THEN args[1].poll_time[1] ELSE config_section[1].poll_time

-----------------------------------------------------------------------------
(* C11 *)

\* the operations of the calls made to the store, in order
Ops == [ i \in 1..Len(store) |-> store[i].op ]

\* C11: run makes its calls in a fixed order: wait_for_start first,
\* create_bucket (event type "afkstatus", queued, the watcher's bucket)
\* second and once only, the connection third, and heartbeats only after
\* all three; when wait_for_start or create_bucket fails, nothing follows
\* the failed call and no heartbeat is ever sent.
C11_StartupOrder ==
    /\ \A i \in 1..Len(store) :
          /\ store[i].op = "wait_for_start" => i = 1
          /\ store[i].op = "create_bucket" =>
                /\ i = 2 /\ Ops[1] = "wait_for_start"
                /\ store[i].eventtype = "afkstatus"
                /\ store[i].queued
                /\ store[i].bucket = bucketname[1]
          /\ store[i].op = "connect" => i = 3 /\ Ops[2] = "create_bucket"
          /\ store[i].op = "heartbeat" => i > 3 /\ Ops[3] = "connect"
    /\ (pc = "create_bucket" \/ pc = "client_enter") =>
          Ops[Len(store)] \in {"wait_for_start", "create_bucket"}
    /\ (pc = "raised" /\ exc = "Exception" /\ left = None) =>
          /\ Len(store) \in {1, 2}
          /\ \A i \in 1..Len(store) :
                store[i].op \in {"wait_for_start", "create_bucket"}

\* heartbeats have been sent after the three startup calls
C11_Witness ==
    /\ Len(store) >= 5
    /\ SubSeq(Ops, 1, 5) = << "wait_for_start", "create_bucket", "connect",
                              "heartbeat", "heartbeat" >>

-----------------------------------------------------------------------------
(* C12 *)

\* C12: the connection is open exactly while the loop runs: at every
\* position of the loop it is open, every heartbeat lies between the connect
\* and the disconnect, and however the loop was left (parent death,
\* interrupt, exception) the connection is closed when run has returned or
\* raised.
C12_ScopedConnection ==
    /\ pc \in TryPcs => connected
    /\ pc \in EndPcs => ~connected
    /\ \A i \in 1..Len(store) :
          store[i].op = "heartbeat" =>
            /\ \E j \in 1..(i - 1) : store[j].op = "connect"
            /\ \A j \in 1..(i - 1) : store[j].op # "disconnect"
    /\ (left # None /\ pc \in EndPcs) =>
          /\ Ops[Len(store)] = "disconnect"
          /\ Cardinality({ i \in 1..Len(store) : Ops[i] = "disconnect" }) = 1

\* an exception escaped a tick after heartbeats were sent
C12_Witness ==
    /\ left # None /\ left[1].by = "Exception" /\ pc = "raised"
    /\ ~connected /\ Len(Heartbeats(store)) >= 2

-----------------------------------------------------------------------------
(* C13 *)

\* C13: the loop starts NOT_AFK whatever the idle time at startup: the first
\* tick starts NOT_AFK and sends one not-afk heartbeat (sample below the
\* timeout) or the two heartbeats of a transition to AFK; and the afk flag
\* changes only in the second step of a transition inside a tick.
C13_StartsNotAfk ==
    /\ []( (pc \in TryPcs /\ Len(feed) = 0) => ~afk )
    /\ []( (pc = "decide" /\ Len(feed) = 1) => ~afk0 /\ ~afk )
    /\ []( Len(feed) = 1 => pc # "no_longer_afk_2" )
    /\ []( (TickDone /\ Len(feed) = 1) =>
             /\ ~afk0
             /\ Len(Heartbeats(store)) = Len(TickCalls)
             /\ IF Below
                  THEN ~afk /\ Len(TickCalls) = 1
                       /\ TickCalls[1].status = "not-afk"
                  ELSE afk /\ Len(TickCalls) = 2
                       /\ TickCalls[1].status = "not-afk"
                       /\ TickCalls[2].status = "afk" )
    /\ [][ afk' # afk =>
             /\ pc \in {"no_longer_afk_2", "became_afk_2"}
             /\ pc' = "sleep" ]_vars

\* the user had been idle for longer than the timeout when the loop started
C13_Witness ==
    /\ TickDone /\ Len(feed) = 1 /\ seconds_since_input = 15
    /\ afk /\ Len(TickCalls) = 2

-----------------------------------------------------------------------------
(* C14 *)

\* C14: the loop has no terminal state of its own.  It is left only by an
\* interrupt, the parent's death or an exception; every tick that reaches
\* its sleep has sent at least one heartbeat; the sleep lasts poll_time and
\* is followed by the next tick; and, as long as none of the three events
\* happens, the loop goes from any of its positions through tick after tick
\* (as many ticks as the model follows it), each with a heartbeat sent.
C14_NoTerminalState ==
    /\ [][ (pc \in TryPcs /\ pc' \notin TryPcs) =>
             left' # None /\ pc' = "client_exit" ]_vars
    /\ []( TickDone =>
             /\ Len(TickCalls) >= 1
             /\ \A i \in 1..Len(TickCalls) : TickCalls[i].op = "heartbeat" )
    /\ [][ (pc = "sleep" /\ pc' # pc /\ left' = None) =>
             /\ pc' = "check_parent"
             /\ clock' = clock + 1000 * settings[1].poll_time ]_vars
    /\ (pc \in TryPcs /\ left = None)
          ~> \/ left # None
             \/ /\ pc \in {"check_parent", "read"} /\ Len(feed) = MaxTicks
                /\ Len(Heartbeats(store)) >= MaxTicks

\* the loop has run through every tick the model follows and can go on
C14_Witness ==
    /\ pc = "check_parent" /\ Len(feed) = MaxTicks /\ left = None
    /\ Len(Heartbeats(store)) >= MaxTicks /\ afk

-----------------------------------------------------------------------------
(* C15 *)

\* C15: an exception other than an interrupt raised in a tick is neither
\* swallowed nor retried: the loop is left at once, the exception reaches
\* the caller of run, no further tick starts and no heartbeat is sent after
\* it.
C15_ExceptionPropagates ==
    /\ []( (left # None /\ left[1].by = "Exception") =>
             /\ exc = "Exception"
             /\ pc \in {"client_exit", "raised"}
             /\ \A i \in (left[1].calls + 1)..Len(store) :
                   store[i].op # "heartbeat" )
    /\ [][ (left # None /\ left[1].by = "Exception") =>
             feed' = feed /\ clock' = clock /\ left' = left ]_vars

\* client.heartbeat raised between the two heartbeats of a transition
C15_Witness ==
    /\ left # None /\ left[1].by = "Exception"
    /\ left[1].at = "became_afk_2"
    /\ pc = "raised" /\ exc = "Exception"

-----------------------------------------------------------------------------
(* C16 *)

\* all heartbeats sent so far, in the order sent
Sent == Heartbeats(store)

\* the end of what a heartbeat describes: timestamp + duration, in ms
End(h) == h.timestamp + timedelta(h.duration)

Max(a, b) == IF a >= b THEN a ELSE b

\* the end of the store event built from the heartbeats up to the j-th that
\* carry the j-th heartbeat's status without a change of status in between
RECURSIVE EventEnd(_, _)
EventEnd(hb, j) ==
    IF j = 1 \/ hb[j - 1].status # hb[j].status
      THEN End(hb[j])
      ELSE Max(EventEnd(hb, j - 1), End(hb[j]))

\* ticks are poll_time apart, so a consistent idle-time provider returns
\* either the previous idle time plus poll_time or, after a new input, an
\* idle time of at most poll_time
Consistent ==
    \A k \in 1..(Len(feed) - 1) :
       \/ feed[k + 1] = feed[k] + settings[1].poll_time
       \/ feed[k + 1] <= settings[1].poll_time

\* C16: with ticks poll_time apart and a consistent idle-time provider,
\* every heartbeat that has the status of the heartbeat sent just before it
\* has a timestamp no later than pulsetime = timeout + poll_time after the
\* end of the event built from the previous same-status heartbeats.
C16_MergeFriendly ==
    (settings # None /\ Consistent) =>
       \A i \in 2..Len(Sent) :
          Sent[i].status = Sent[i - 1].status =>
             /\ Sent[i].pulsetime = settings[1].timeout + settings[1].poll_time
             /\ Sent[i].timestamp <=
                   EventEnd(Sent, i - 1) + timedelta(Sent[i].pulsetime)

\* idle time growing 5, 10, 15 with poll_time 5: a not-afk period, the
\* transition and an afk period continued by a no-change heartbeat
C16_Witness ==
    /\ TickDone /\ feed = << 5, 10, 15 >> /\ Consistent
    /\ settings[1].timeout = 10 /\ settings[1].poll_time = 5
    /\ Len(Sent) = 4
    /\ Sent[3].status = "afk" /\ Sent[4].status = "afk"
    /\ Sent[4].timestamp <= EventEnd(Sent, 3) + timedelta(Sent[4].pulsetime)

-----------------------------------------------------------------------------
(* C17 *)

\* C17 as stated: for a consistent idle-time provider, an afk heartbeat sent
\* before a not-afk heartbeat, and a not-afk heartbeat sent before an afk
\* heartbeat, ends (timestamp + duration) no later than the later one's
\* timestamp.
C17_AsStated ==
    (settings # None /\ Consistent) =>
       \A i, j \in 1..Len(Sent) :
          (i < j /\ Sent[i].status # Sent[j].status) =>
             End(Sent[i]) <= Sent[j].timestamp

-----------------------------------------------------------------------------
(* C18 *)

Status(afk_) == IF afk_ THEN "afk" ELSE "not-afk"

\* C18: the status carried by the heartbeats changes only between the two
\* heartbeats of a transition tick: the first heartbeat ever is not-afk,
\* the first heartbeat of a tick carries the status the previous tick
\* ended with, the last heartbeat of a completed tick carries the status of
\* the afk flag, and where two successive heartbeats differ in status the
\* first closes the outgoing state with duration 0 and the second has the
\* timestamp of the first plus 1ms.
C18_StatusChangesInsideTransition ==
    /\ Len(Sent) >= 1 => Sent[1].status = "not-afk"
    /\ (pc \in {"read", "decide"}) => afk0 = afk
    /\ (pc \in {"check_parent", "read", "decide"} /\ Len(Sent) >= 1) =>
          Sent[Len(Sent)].status = Status(afk)
    /\ (pc \in TryPcs /\ pc # "check_parent" /\ Len(TickCalls) >= 1) =>
          TickCalls[1].status = Status(afk0)
    /\ TickDone => TickCalls[Len(TickCalls)].status = Status(afk)
    /\ \A i \in 1..(Len(Sent) - 1) :
          Sent[i].status # Sent[i + 1].status =>
             /\ Sent[i].duration = 0
             /\ Sent[i + 1].timestamp = Sent[i].timestamp + 1

\* a run that went AFK in one tick and came back in a later one
C18_Witness ==
    /\ TickDone /\ Len(feed) = 3 /\ afk0 /\ ~afk
    /\ Len(TickCalls) = 2
    /\ TickCalls[1].status = "afk" /\ TickCalls[2].status = "not-afk"
    /\ \E i \in 1..Len(Sent) : Sent[i].status = "afk" /\ Sent[i].duration > 0

-----------------------------------------------------------------------------
(* C19 *)

\* last_input = now - seconds_since_input does not decrease from one tick to
\* the next: the idle time grows by at most the poll_time that went by
LastInputNeverDecreases ==
    \A k \in 1..(Len(feed) - 1) :
       feed[k + 1] <= feed[k] + settings[1].poll_time

\* C19 as stated: when last_input never decreases from tick to tick, every
\* heartbeat has a timestamp greater than or equal to that of the heartbeat
\* sent just before it.
C19_AsStated ==
    (settings # None /\ LastInputNeverDecreases) =>
       \A i \in 2..Len(Sent) : Sent[i].timestamp >= Sent[i - 1].timestamp

-----------------------------------------------------------------------------
(* C20 *)

\* SSH_CLIENT or SSH_TTY is set to a non-empty value
SshSet ==
    \/ environ.SSH_CLIENT \notin {None, << "" >>}
    \/ environ.SSH_TTY \notin {None, << "" >>}

\* C20: started from an SSH session, main exits with code 0 before a
\* watcher is constructed: no settings, no bucket name, no call to the
\* store; started otherwise, main never exits that way and goes on from
\* the test to construct the watcher.
C20_SshExit ==
    /\ []( SshSet =>
             /\ pc \in {"parse_args", "running_over_ssh", "exited"}
             /\ settings = None /\ bucketname = None
             /\ store = << >> /\ ~connected
             /\ pc = "exited" => exit_code = << 0 >> )
    /\ []( ~SshSet => pc # "exited" /\ exit_code # << 0 >> )
    /\ [][ (pc = "running_over_ssh" /\ pc' # pc) =>
             pc' = IF SshSet THEN "exited" ELSE "Settings" ]_vars

\* started with SSH_TTY alone set
C20_Witness ==
    /\ pc = "exited" /\ exit_code = << 0 >>
    /\ environ.SSH_CLIENT = None /\ environ.SSH_TTY # None
    /\ store = << >> /\ settings = None

====
